---------------------------- MODULE Spec2Model ----------------------------
(***************************************************************************)
(* The cube-circuit demonstration of src/main.rs: y = x^3 + x + 5 compiled *)
(* to an R1CS, the assignment vector z, the inlined constraint matrices    *)
(* A, B, C, and the Groth16 setup / prove / verify calls that follow.      *)
(*                                                                         *)
(* Field elements.  Fr is the scalar field of BLS12-381, whose modulus r   *)
(* has 255 bits.  An element is written here as the integer n that names   *)
(* it: n itself when n >= 0, and r + n (the additive inverse of -n) when   *)
(* n < 0.  Fr's sum, product and negation of two such elements are named   *)
(* by the integer sum, product and negation as long as the magnitudes stay *)
(* far below r / 2, and two such integers name the same element exactly    *)
(* when they are equal.  Every value the inputs below lead to is below     *)
(* 2^31 in magnitude, so no reduction modulo r ever takes place, in the    *)
(* program or here.                                                        *)
(***************************************************************************)
EXTENDS Integers, Sequences, FiniteSets, TLC

\* Inputs x = 0 .. MaxX, and the field elements -1 .. -MaxNeg (r - 1, ...).
MaxX == 40
MaxNeg == 8
\* Values written over an entry of z: 0 .. MaxFlip and -1 .. -MaxNeg.
MaxFlip == 40
\* Values of a replaced assignment: -1 .. MaxAssign.
MaxAssign == 3

FAdd(a, b) == a + b
FMul(a, b) == a * b
FNeg(a) == 0 - a
\* Fr::from(n) for an unsigned integer n
FFrom(n) == n

InputX == (0 .. MaxX) \cup { FNeg(k) : k \in 1 .. MaxNeg }
FlipVals == (0 .. MaxFlip) \cup { FNeg(k) : k \in 1 .. MaxNeg }
AssignVals == FNeg(1) .. MaxAssign

-----------------------------------------------------------------------------
(* Variables of the constraint system, ordered Zero < One < Instance <    *)
(* Witness < SymbolicLc and then by index.                                 *)

One == [kind |-> "One", idx |-> 0]
Instance(i) == [kind |-> "Instance", idx |-> i]
Witness(i) == [kind |-> "Witness", idx |-> i]
SymbolicLc(i) == [kind |-> "SymbolicLc", idx |-> i]

VarRank(v) ==
    CASE v.kind = "One" -> 1
      [] v.kind = "Instance" -> 2
      [] v.kind = "Witness" -> 3
      [] v.kind = "SymbolicLc" -> 4

VarLess(u, v) ==
    \/ VarRank(u) < VarRank(v)
    \/ VarRank(u) = VarRank(v) /\ u.idx < v.idx

(* A linear combination is a sequence of <<coefficient, variable>> kept    *)
(* sorted by variable.  Positions returned by the searches count from 0.   *)
LcZero == << >>

LcInsertAt(lc, below, coeff, var) ==
    SubSeq(lc, 1, below) \o << <<coeff, var>> >>
        \o SubSeq(lc, below + 1, Len(lc))

\* the scan of a short combination: the first entry that is not smaller
LcScan(lc, var) ==
    LET notLess == {k \in 1 .. Len(lc) : ~VarLess(lc[k][2], var)}
    IN  IF notLess = {} THEN Len(lc)
        ELSE (CHOOSE k \in notLess : \A j \in notLess : k <= j) - 1

(* The binary search of a slice by key: halve the range, keeping the       *)
(* middle as the new base unless its key is greater; then compare the      *)
(* entry left at the base.                                                 *)
RECURSIVE BinarySearch(_, _, _, _)
BinarySearch(lc, var, base, size) ==
    IF size > 1
    THEN LET half == size \div 2
             mid == base + half
         IN  BinarySearch(lc, var,
                          IF VarLess(var, lc[mid + 1][2]) THEN base ELSE mid,
                          size - half)
    ELSE IF lc[base + 1][2] = var
         THEN [found |-> TRUE, at |-> base]
         ELSE [found |-> FALSE,
               at |-> base + (IF VarLess(lc[base + 1][2], var) THEN 1 ELSE 0)]

(* get_var_loc: a combination of fewer than six terms is scanned and the   *)
(* scan never reports a match; a longer one is searched.                   *)
GetVarLoc(lc, var) ==
    IF Len(lc) < 6
    THEN [found |-> FALSE, at |-> LcScan(lc, var)]
    ELSE BinarySearch(lc, var, 0, Len(lc))

(* lc + (coeff, var): the coefficient is added to the one entry the search *)
(* found, or a new entry is inserted at the position it reported.          *)
LcAddTerm(lc, coeff, var) ==
    LET loc == GetVarLoc(lc, var)
    IN  IF loc.found
        THEN [lc EXCEPT ![loc.at + 1] = <<FAdd(lc[loc.at + 1][1], coeff), var>>]
        ELSE LcInsertAt(lc, loc.at, coeff, var)

LcAddVar(lc, var) == LcAddTerm(lc, 1, var)
LcSubVar(lc, var) == LcAddTerm(lc, FNeg(1), var)

LcScale(lc, k) == [j \in 1 .. Len(lc) |-> <<FMul(lc[j][1], k), lc[j][2]>>]

(* compactify: sort by variable and sum the coefficients of equal          *)
(* variables into one entry; zero coefficients stay.                       *)
RECURSIVE CoeffSum(_, _, _)
CoeffSum(terms, var, n) ==
    IF n = 0 THEN 0
    ELSE IF terms[n][2] = var
         THEN FAdd(CoeffSum(terms, var, n - 1), terms[n][1])
         ELSE CoeffSum(terms, var, n - 1)

Compactify(terms) ==
    LET vars == {terms[k][2] : k \in 1 .. Len(terms)}
        nth(p) == CHOOSE v \in vars :
                      Cardinality({u \in vars : VarLess(u, v)}) = p - 1
    IN  [p \in 1 .. Cardinality(vars) |->
            <<CoeffSum(terms, nth(p), Len(terms)), nth(p)>>]

-----------------------------------------------------------------------------
(* The constraint system.  lc_map is a function from the live linear-      *)
(* combination indices to linear combinations.                             *)

NoLcs == [i \in {} |-> LcZero]
NoCache == [i \in {} |-> 0]

NewRef ==
    [ num_instance_variables |-> 1,
      num_witness_variables |-> 0,
      num_constraints |-> 0,
      num_linear_combinations |-> 0,
      instance_assignment |-> <<1>>,
      witness_assignment |-> << >>,
      lc_map |-> NoLcs,
      a_constraints |-> << >>,
      b_constraints |-> << >>,
      c_constraints |-> << >>,
      lc_assignment_cache |-> NoCache ]

NewInputVariable(c, value) ==
    [c EXCEPT !.num_instance_variables = @ + 1,
              !.instance_assignment = Append(@, value)]

NewWitnessVariable(c, value) ==
    [c EXCEPT !.num_witness_variables = @ + 1,
              !.witness_assignment = Append(@, value)]

NewLc(c, lc) ==
    [c EXCEPT !.num_linear_combinations = @ + 1,
              !.lc_map = (c.num_linear_combinations :> lc) @@ @]

EnforceConstraint(c, a, b, cc) ==
    LET c1 == NewLc(c, a)
        c2 == NewLc(c1, b)
        c3 == NewLc(c2, cc)
    IN  [c3 EXCEPT !.a_constraints = Append(@, c.num_linear_combinations),
                   !.b_constraints = Append(@, c.num_linear_combinations + 1),
                   !.c_constraints = Append(@, c.num_linear_combinations + 2),
                   !.num_constraints = @ + 1]


-----------------------------------------------------------------------------
(* Evaluation.  The constant One evaluates to 1 whatever the assignment    *)
(* vectors hold; a symbolic linear combination evaluates to its cached     *)
(* value when one was recorded, and to the value of its entry of lc_map    *)
(* otherwise.                                                              *)

RECURSIVE EvalTerms(_, _, _)
EvalTerms(c, lc, n) ==
    IF n = 0 THEN 0
    ELSE LET coeff == lc[n][1]
             var == lc[n][2]
             value ==
                CASE var.kind = "One" -> 1
                  [] var.kind = "Instance" -> c.instance_assignment[var.idx + 1]
                  [] var.kind = "Witness" -> c.witness_assignment[var.idx + 1]
                  [] var.kind = "SymbolicLc" ->
                        IF var.idx \in DOMAIN c.lc_assignment_cache
                        THEN c.lc_assignment_cache[var.idx]
                        ELSE EvalTerms(c, c.lc_map[var.idx],
                                       Len(c.lc_map[var.idx]))
         IN  FAdd(EvalTerms(c, lc, n - 1), FMul(coeff, value))

EvalLc(c, index) == EvalTerms(c, c.lc_map[index], Len(c.lc_map[index]))

ConstraintHolds(c, i) ==
    FMul(EvalLc(c, c.a_constraints[i]), EvalLc(c, c.b_constraints[i]))
        = EvalLc(c, c.c_constraints[i])

(* which_is_unsatisfied: the first constraint, in insertion order, whose   *)
(* product identity fails; 0 when there is none (rows count from 1 here).  *)
WhichIsUnsatisfied(c) ==
    LET bad == {i \in 1 .. c.num_constraints : ~ConstraintHolds(c, i)}
    IN  IF bad = {} THEN 0 ELSE CHOOSE i \in bad : \A j \in bad : i <= j

IsSatisfied(c) == WhichIsUnsatisfied(c) = 0

(* The symbolic linear combinations an evaluation of lc records in the     *)
(* cache: those it reaches that are not cached yet.                        *)
RECURSIVE SymRefs(_, _)
SymRefs(c, lc) ==
    UNION { IF lc[k][2].kind = "SymbolicLc"
                /\ lc[k][2].idx \notin DOMAIN c.lc_assignment_cache
            THEN {lc[k][2].idx} \cup SymRefs(c, c.lc_map[lc[k][2].idx])
            ELSE {} : k \in 1 .. Len(lc) }

(* The constraint system after is_satisfied(): the rows up to the first    *)
(* failing one were evaluated, filling the cache.                          *)
AfterIsSatisfied(c) ==
    LET first == WhichIsUnsatisfied(c)
        last == IF first = 0 THEN c.num_constraints ELSE first
        seen == UNION { SymRefs(c, c.lc_map[c.a_constraints[i]])
                          \cup SymRefs(c, c.lc_map[c.b_constraints[i]])
                          \cup SymRefs(c, c.lc_map[c.c_constraints[i]])
                        : i \in 1 .. last }
    IN  [c EXCEPT !.lc_assignment_cache = [i \in seen |-> EvalLc(c, i)] @@ @]

-----------------------------------------------------------------------------
(* inline_all_lcs: every linear combination with the symbolic ones it      *)
(* names replaced by their own inlined terms, scaled, then compactified.   *)

RECURSIVE InlineLc(_, _)
RECURSIVE InlineTerms(_, _, _)
InlineTerms(c, lc, n) ==
    IF n = 0 THEN << >>
    ELSE InlineTerms(c, lc, n - 1)
            \o (IF lc[n][2].kind = "SymbolicLc"
                THEN LcScale(InlineLc(c, c.lc_map[lc[n][2].idx]), lc[n][1])
                ELSE << lc[n] >>)

InlineLc(c, lc) == Compactify(InlineTerms(c, lc, Len(lc)))

\* the linear combinations some other linear combination names
NamedLcs(c) ==
    { i \in DOMAIN c.lc_map :
        \E j \in DOMAIN c.lc_map : \E k \in 1 .. Len(c.lc_map[j]) :
            c.lc_map[j][k][2] = SymbolicLc(i) }

\* A combination inlined into every combination that names it is dropped
\* from lc_map; the others, those of the constraints, stay, inlined.
InlineAllLcs(c) ==
    [c EXCEPT !.lc_map = [i \in DOMAIN c.lc_map \ NamedLcs(c) |->
                              InlineLc(c, c.lc_map[i])]]

(* to_matrices: one row per constraint, in insertion order; a row keeps    *)
(* the non-zero coefficients with the column of their variable in z:       *)
(* One is column 0, Instance(i) column i, Witness(i) column                *)
(* num_instance_variables + i.                                             *)
\* witness columns counted from 0, the instance variables not skipped
ColumnOf_NoOffset(c, var) ==
    CASE var.kind = "One" -> 0
      [] var.kind = "Instance" -> var.idx
      [] var.kind = "Witness" -> var.idx

ColumnOf(c, var) ==
    CASE var.kind = "One" -> 0
      [] var.kind = "Instance" -> var.idx
      [] var.kind = "Witness" -> c.num_instance_variables + var.idx

RECURSIVE MakeRowUpTo(_, _, _)
MakeRowUpTo(c, lc, n) ==
    IF n = 0 THEN << >>
    ELSE MakeRowUpTo(c, lc, n - 1)
            \o (IF lc[n][1] = 0 THEN << >>
                ELSE << <<lc[n][1], ColumnOf(c, lc[n][2])>> >>)

MakeRow(c, lc) == MakeRowUpTo(c, lc, Len(lc))

ToMatrices(c) ==
    [ a |-> [i \in 1 .. Len(c.a_constraints) |->
                MakeRow(c, c.lc_map[c.a_constraints[i]])],
      b |-> [i \in 1 .. Len(c.b_constraints) |->
                MakeRow(c, c.lc_map[c.b_constraints[i]])],
      c |-> [i \in 1 .. Len(c.c_constraints) |->
                MakeRow(c, c.lc_map[c.c_constraints[i]])] ]

-----------------------------------------------------------------------------
(* Field gadgets used by the circuit.  An FpVar is a constant or an        *)
(* allocated variable carrying its value; an operation returns the new     *)
(* constraint system and the resulting FpVar.                              *)

FpConstant(v) == [tag |-> "Constant", value |-> v, variable |-> One]
FpVar(v, var) == [tag |-> "Var", value |-> v, variable |-> var]

\* FpVar::new_input
FpNewInput(c, value) ==
    [ cs |-> NewInputVariable(c, value),
      out |-> FpVar(value, Instance(c.num_instance_variables)) ]

\* FpVar::new_witness
FpNewWitness(c, value) ==
    [ cs |-> NewWitnessVariable(c, value),
      out |-> FpVar(value, Witness(c.num_witness_variables)) ]

\* Var * Var: a fresh witness holding the product and the constraint
\* left * right = product.
FpMul(c, left, right) ==
    LET product == FpNewWitness(c, FMul(left.value, right.value))
    IN  [ cs |-> EnforceConstraint(product.cs,
                                   LcAddVar(LcZero, left.variable),
                                   LcAddVar(LcZero, right.variable),
                                   LcAddVar(LcZero, product.out.variable)),
          out |-> product.out ]

\* Var + Constant: a symbolic linear combination, no constraint; adding the
\* constant zero returns the variable itself.
FpAddConstant(c, left, const) ==
    IF const.value = 0 THEN [cs |-> c, out |-> left]
    ELSE [ cs |-> NewLc(c, LcAddTerm(LcAddVar(LcZero, left.variable),
                                      const.value, One)),
           out |-> FpVar(FAdd(left.value, const.value),
                         SymbolicLc(c.num_linear_combinations)) ]

\* Var + Var: a symbolic linear combination, no constraint.
FpAdd(c, left, right) ==
    [ cs |-> NewLc(c, LcAddVar(LcAddVar(LcZero, left.variable), right.variable)),
      out |-> FpVar(FAdd(left.value, right.value),
                    SymbolicLc(c.num_linear_combinations)) ]

\* Var.enforce_equal(Var): the constraint (left - right) * 1 = 0.
FpEnforceEqual(c, left, right) ==
    EnforceConstraint(c,
                      LcSubVar(LcAddVar(LcZero, left.variable), right.variable),
                      LcAddVar(LcZero, One),
                      LcZero)

-----------------------------------------------------------------------------
(* CubeCircuit and main.                                                   *)

\* y = x^2 + x + 5: a factor x dropped
RelationY_Square(x) == FAdd(FAdd(FMul(x, x), x), FFrom(5))

\* y = x^3 + x + 5
RelationY(x) == FAdd(FAdd(FMul(FMul(x, x), x), x), FFrom(5))

\* generate_constraints, statement by statement
AllocY(c, circ) == FpNewInput(c, circ.y)
AllocX(c, circ) == FpNewWitness(c, circ.x)
XSquared(c, xv) == FpMul(c, xv, xv)
\* x * x^2 in place of x^2 * x: the operands of the product exchanged
XCubed_Swapped(c, x2, xv) == FpMul(c, xv, x2)
XCubed(c, x2, xv) == FpMul(c, x2, xv)

\* x + 5 + x^3 built but never tied to y: enforce_equal left out
EnforceRelation_NotEnforced(c, xv, x3, yv) ==
    LET plus5 == FpAddConstant(c, xv, FpConstant(FFrom(5)))
    IN  FpAdd(plus5.cs, plus5.out, x3).cs
EnforceRelation(c, xv, x3, yv) ==
    LET plus5 == FpAddConstant(c, xv, FpConstant(FFrom(5)))
        lhs == FpAdd(plus5.cs, plus5.out, x3)
    IN  FpEnforceEqual(lhs.cs, lhs.out, yv)

\* z with the witness assignment first
ZConcat_WitnessFirst(inst, wit) == wit \o inst
\* z without the instance assignment
ZConcat_WitnessOnly(inst, wit) == wit

\* z: the instance assignment followed by the witness assignment
ZConcat(inst, wit) == inst \o wit

\* z.split_at(n)
SplitAt(zz, n) == << SubSeq(zz, 1, n), SubSeq(zz, n + 1, Len(zz)) >>

\* A row applied to z: the sum of coefficient * z[column].
RECURSIVE RowDotUpTo(_, _, _)
RowDotUpTo(row, zz, n) ==
    IF n = 0 THEN 0
    ELSE FAdd(RowDotUpTo(row, zz, n - 1), FMul(row[n][1], zz[row[n][2] + 1]))

RowDot(row, zz) == RowDotUpTo(row, zz, Len(row))

RowHolds(m, zz, i) ==
    FMul(RowDot(m.a[i], zz), RowDot(m.b[i], zz)) = RowDot(m.c[i], zz)

RowsSatisfied(m, zz) == \A i \in 1 .. Len(m.a) : RowHolds(m, zz, i)

VARIABLES
    pc,          \* the statement of main that runs next
    x_value,     \* private input
    y_value,     \* public input
    circuit,     \* CubeCircuit { x, y }
    cs,          \* the constraint system
    fp,          \* the FpVars of generate_constraints, by name
    satisfied,   \* the result of cs.is_satisfied()
    z,           \* the vector z of main
    parts,       \* (instance, witness) as split from z
    matrices,    \* the extracted A, B, C
    keys,        \* (pk, vk) of circuit_specific_setup
    proof,       \* the proof
    valid,       \* the result of verify
    probe        \* an entry of z overwritten, and the two checks on it

vars == << pc, x_value, y_value, circuit, cs, fp, satisfied, z, parts,
           matrices, keys, proof, valid, probe >>

None == "none"
NoFp == [n \in {} |-> FpConstant(0)]

Init ==
    /\ pc = "relation"
    /\ x_value \in InputX
    /\ y_value = None
    /\ circuit = None
    /\ cs = None
    /\ fp = NoFp
    /\ satisfied = None
    /\ z = << >>
    /\ parts = None
    /\ matrices = None
    /\ keys = None
    /\ proof = None
    /\ valid = None
    /\ probe = None

\* let y_value = ...; let circuit = CubeCircuit { x, y }
ComputeRelation ==
    /\ pc = "relation"
    /\ y_value' = RelationY(x_value)
    /\ circuit' = [x |-> x_value, y |-> RelationY(x_value)]
    /\ pc' = "new_ref"
    /\ UNCHANGED << x_value, cs, fp, satisfied, z, parts, matrices, keys,
                    proof, valid, probe >>

\* let cs = ConstraintSystem::new_ref()
NewConstraintSystem ==
    /\ pc = "new_ref"
    /\ cs' = NewRef
    /\ pc' = "alloc_y"
    /\ UNCHANGED << x_value, y_value, circuit, fp, satisfied, z, parts,
                    matrices, keys, proof, valid, probe >>

SynthAllocY ==
    /\ pc = "alloc_y"
    /\ LET r == AllocY(cs, circuit)
       IN  /\ cs' = r.cs
           /\ fp' = ("y_var" :> r.out) @@ fp
    /\ pc' = "alloc_x"
    /\ UNCHANGED << x_value, y_value, circuit, satisfied, z, parts, matrices,
                    keys, proof, valid, probe >>

SynthAllocX ==
    /\ pc = "alloc_x"
    /\ LET r == AllocX(cs, circuit)
       IN  /\ cs' = r.cs
           /\ fp' = ("x_var" :> r.out) @@ fp
    /\ pc' = "x_squared"
    /\ UNCHANGED << x_value, y_value, circuit, satisfied, z, parts, matrices,
                    keys, proof, valid, probe >>

SynthXSquared ==
    /\ pc = "x_squared"
    /\ LET r == XSquared(cs, fp["x_var"])
       IN  /\ cs' = r.cs
           /\ fp' = ("x_squared_var" :> r.out) @@ fp
    /\ pc' = "x_cubed"
    /\ UNCHANGED << x_value, y_value, circuit, satisfied, z, parts, matrices,
                    keys, proof, valid, probe >>

SynthXCubed ==
    /\ pc = "x_cubed"
    /\ LET r == XCubed(cs, fp["x_squared_var"], fp["x_var"])
       IN  /\ cs' = r.cs
           /\ fp' = ("x_cubed_var" :> r.out) @@ fp
    /\ pc' = "enforce_equal"
    /\ UNCHANGED << x_value, y_value, circuit, satisfied, z, parts, matrices,
                    keys, proof, valid, probe >>

SynthEnforceRelation ==
    /\ pc = "enforce_equal"
    /\ cs' = EnforceRelation(cs, fp["x_var"], fp["x_cubed_var"], fp["y_var"])
    /\ pc' = "assert_satisfied"
    /\ UNCHANGED << x_value, y_value, circuit, fp, satisfied, z, parts,
                    matrices, keys, proof, valid, probe >>

\* assert!(cs.is_satisfied().unwrap())
AssertSatisfied ==
    /\ pc = "assert_satisfied"
    /\ satisfied' = IsSatisfied(cs)
    /\ cs' = AfterIsSatisfied(cs)
    /\ pc' = IF IsSatisfied(cs) THEN "build_z" ELSE "panicked"
    /\ UNCHANGED << x_value, y_value, circuit, fp, z, parts, matrices, keys,
                    proof, valid, probe >>

\* z.extend(instance_assignment); z.extend(witness_assignment); split_at
BuildZ ==
    /\ pc = "build_z"
    /\ z' = ZConcat(cs.instance_assignment, cs.witness_assignment)
    /\ parts' = SplitAt(ZConcat(cs.instance_assignment, cs.witness_assignment),
                        Len(cs.instance_assignment))
    /\ pc' = "inline"
    /\ UNCHANGED << x_value, y_value, circuit, cs, fp, satisfied, matrices,
                    keys, proof, valid, probe >>

\* cs.inline_all_lcs()
InlineLcs ==
    /\ pc = "inline"
    /\ cs' = InlineAllLcs(cs)
    /\ pc' = "to_matrices"
    /\ UNCHANGED << x_value, y_value, circuit, fp, satisfied, z, parts,
                    matrices, keys, proof, valid, probe >>

\* let matrices = cs.to_matrices().unwrap()
ExtractMatrices ==
    /\ pc = "to_matrices"
    /\ matrices' = ToMatrices(cs)
    /\ pc' = "setup"
    /\ UNCHANGED << x_value, y_value, circuit, cs, fp, satisfied, z, parts,
                    keys, proof, valid, probe >>

(* The Groth16 calls run in the library on constraint systems of their     *)
(* own; here they only produce their results, and what verify answers is   *)
(* left open.                                                              *)
Setup ==
    /\ pc = "setup"
    /\ keys' = [circuit_shape |-> "cube"]
    /\ pc' = "prove"
    /\ UNCHANGED << x_value, y_value, circuit, cs, fp, satisfied, z, parts,
                    matrices, proof, valid, probe >>

Prove ==
    /\ pc = "prove"
    /\ proof' = [for_circuit |-> circuit]
    /\ pc' = "verify"
    /\ UNCHANGED << x_value, y_value, circuit, cs, fp, satisfied, z, parts,
                    matrices, keys, valid, probe >>

Verify ==
    /\ pc = "verify"
    /\ valid' \in BOOLEAN
    /\ pc' = "done"
    /\ UNCHANGED << x_value, y_value, circuit, cs, fp, satisfied, z, parts,
                    matrices, keys, proof, probe >>

Next ==
    \/ ComputeRelation
    \/ NewConstraintSystem
    \/ SynthAllocY
    \/ SynthAllocX
    \/ SynthXSquared
    \/ SynthXCubed
    \/ SynthEnforceRelation
    \/ AssertSatisfied
    \/ BuildZ
    \/ InlineLcs
    \/ ExtractMatrices
    \/ Setup
    \/ Prove
    \/ Verify

Spec == Init /\ [][Next]_vars

(* One entry of z overwritten with another field value, after the          *)
(* matrices were extracted: is_satisfied() on the constraint system        *)
(* holding the changed assignment, and the row-by-row check of the         *)
(* matrices against the changed z.                                         *)
FlipEntry(i, v) ==
    /\ pc = "setup"
    /\ probe = None
    /\ i \in 0 .. (Len(z) - 1)
    /\ v # z[i + 1]
    /\ LET zt == [z EXCEPT ![i + 1] = v]
           split == SplitAt(zt, Len(cs.instance_assignment))
           ct == [cs EXCEPT !.instance_assignment = split[1],
                            !.witness_assignment = split[2]]
       IN  probe' = [ index |-> i,
                      value |-> v,
                      z |-> zt,
                      is_satisfied |-> IsSatisfied(ct),
                      rows_satisfied |-> RowsSatisfied(matrices, zt) ]
    /\ pc' = "probed"
    /\ UNCHANGED << x_value, y_value, circuit, cs, fp, satisfied, z, parts,
                    matrices, keys, proof, valid >>

NextFlip ==
    \/ Next
    \/ \E i \in 0 .. 4, v \in FlipVals : FlipEntry(i, v)

SpecFlip == Init /\ [][NextFlip]_vars

(* The assignment replaced, after the matrices were extracted: entry 0     *)
(* stays the constant 1, and each of y, x, x^2, x^3 keeps its value or     *)
(* takes one of AssignVals.  is_satisfied() on the constraint system       *)
(* holding the new assignment, and the row-by-row check of the matrices    *)
(* against the new z.                                                      *)
ReplaceAssignment(yv, xv, x2v, x3v) ==
    /\ pc = "setup"
    /\ probe = None
    /\ yv \in AssignVals \cup {z[2]}
    /\ xv \in AssignVals \cup {z[3]}
    /\ x2v \in AssignVals \cup {z[4]}
    /\ x3v \in AssignVals \cup {z[5]}
    /\ LET zt == << z[1], yv, xv, x2v, x3v >>
           split == SplitAt(zt, Len(cs.instance_assignment))
           ct == [cs EXCEPT !.instance_assignment = split[1],
                            !.witness_assignment = split[2]]
       IN  probe' = [ z |-> zt,
                      is_satisfied |-> IsSatisfied(ct),
                      rows_satisfied |-> RowsSatisfied(matrices, zt) ]
    /\ pc' = "probed"
    /\ UNCHANGED << x_value, y_value, circuit, cs, fp, satisfied, z, parts,
                    matrices, keys, proof, valid >>

AssignOrKeep(i) == AssignVals \cup (IF Len(z) >= i THEN {z[i]} ELSE {})

NextAssign ==
    \/ Next
    \/ /\ pc = "setup"
       /\ \E yv \in AssignOrKeep(2), xv \in AssignOrKeep(3),
             x2v \in AssignOrKeep(4), x3v \in AssignOrKeep(5) :
               ReplaceAssignment(yv, xv, x2v, x3v)

SpecAssign == Init /\ [][NextAssign]_vars

-----------------------------------------------------------------------------
(* Properties.                                                             *)

Built == pc \in {"build_z", "inline", "to_matrices", "setup", "prove",
                 "verify", "done", "probed"}
HasZ == pc \in {"inline", "to_matrices", "setup", "prove", "verify", "done",
                "probed"}
Extracted == pc \in {"setup", "prove", "verify", "done", "probed"}
HasCs == pc \notin {"relation", "new_ref"}
Probed == pc = "probed"

\* C1: for every field value x, with y = x^3 + x + 5, the cube circuit once
\* built (public y, private x, three constraints) is satisfied:
\* is_satisfied() returned true, the assertion of main did not fail, and
\* is_satisfied() stays true when called again, also after the inlining.
C1_BuildSatisfied ==
    /\ pc # "panicked"
    /\ Built => /\ satisfied = TRUE
                /\ IsSatisfied(cs)
                /\ cs.num_constraints = 3
                /\ circuit = [x |-> x_value, y |-> y_value]

C1_Witness ==
    /\ pc = "build_z"
    /\ satisfied = TRUE
    /\ x_value = FNeg(2)

\* C2 as stated: overwriting any single entry of a satisfying z, entry 0
\* included, with another field value makes is_satisfied() false.
C2_Original == Probed => ~probe.is_satisfied

\* C2 as amended: overwriting any single entry of z other than entry 0
\* (y, x, x^2 or x^3) with another field value makes is_satisfied() false.
C2_FlipDetected ==
    (Probed /\ probe.index >= 1) => ~probe.is_satisfied

C2_Witness ==
    /\ Probed
    /\ probe.index = 2
    /\ x_value = 3
    /\ probe.value = FNeg(3)
    /\ ~probe.is_satisfied

\* C5: for x = 3, y = 35 and z = [1, 35, 3, 9, 27], and the matrices have
\* the three rows  A=[(1,2)] B=[(1,2)] C=[(1,3)];  A=[(1,3)] B=[(1,2)]
\* C=[(1,4)];  A=[(5,0),(-1,1),(1,2),(1,4)] B=[(1,0)] C=[]  in this order.
C5_ConcreteScenario ==
    x_value = 3 =>
        /\ pc # "relation" => y_value = 35
        /\ HasZ => z = <<1, 35, 3, 9, 27>>
        /\ Extracted =>
              /\ matrices.a = << << <<1, 2>> >>,
                                 << <<1, 3>> >>,
                                 << <<5, 0>>, <<FNeg(1), 1>>, <<1, 2>>, <<1, 4>> >> >>
              /\ matrices.b = << << <<1, 2>> >>, << <<1, 2>> >>, << <<1, 0>> >> >>
              /\ matrices.c = << << <<1, 3>> >>, << <<1, 4>> >>, << >> >>

C5_Witness ==
    /\ x_value = 3
    /\ pc = "setup"
    /\ Len(matrices.a) = 3
    /\ z[2] = 35

\* C6: A, B and C each have as many rows as there are constraints, every
\* column index of a row is below len(z), and len(z) is 1 + the number of
\* public inputs + the number of private witnesses.
C6_MatrixShape ==
    /\ HasZ
          => Len(z) = 1 + (cs.num_instance_variables - 1)
                        + cs.num_witness_variables
    /\ Extracted =>
          /\ Len(matrices.a) = cs.num_constraints
          /\ Len(matrices.b) = cs.num_constraints
          /\ Len(matrices.c) = cs.num_constraints
          /\ \A n \in {"a", "b", "c"} :
                \A i \in 1 .. Len(matrices[n]) :
                    \A k \in 1 .. Len(matrices[n][i]) :
                        matrices[n][i][k][2] < Len(z)

C6_Witness ==
    /\ pc = "setup"
    /\ cs.num_constraints = 3
    /\ Len(z) = 5
    /\ \E k \in 1 .. Len(matrices.a[3]) : matrices.a[3][k][2] = 4

\* C9: after every allocation and every constraint of the build, the first
\* instance entry, which is z[0], is the field's 1.
C9_ConstantOne ==
    /\ HasCs => /\ Len(cs.instance_assignment) >= 1
                    /\ cs.instance_assignment[1] = 1
    /\ HasZ => /\ Len(z) >= 1
               /\ z[1] = 1

C9_Witness ==
    /\ pc = "inline"
    /\ cs.num_constraints = 3
    /\ cs.num_witness_variables = 3
    /\ x_value = 7
    /\ z[1] = 1

\* C10: for any assignment z (entry 0 being the constant 1, as in every
\* constructed system), is_satisfied() is true if and only if every row i
\* of the extracted matrices satisfies (A_i.z) * (B_i.z) = C_i.z: so it is
\* for the z main builds and for every assignment put in its place.
C10_ChecksAgree ==
    /\ Extracted /\ ~Probed
          => (IsSatisfied(cs) <=> RowsSatisfied(matrices, z))
    /\ Probed => (probe.is_satisfied <=> probe.rows_satisfied)

\* another satisfying assignment, x = -1 and y = 3, in place of that of
\* x = 3: both checks pass
C10_Witness ==
    /\ Probed
    /\ x_value = 3
    /\ probe.z = << 1, 3, FNeg(1), 1, FNeg(1) >>
    /\ probe.is_satisfied
    /\ probe.rows_satisfied

=============================================================================
